---- MODULE Spec2Model ----
(***************************************************************************)
(* Blogicum (blog/views.py): which posts and comments a viewer is shown,   *)
(* and who may create, edit and delete them.                               *)
(*                                                                         *)
(* The database is the state.  Every view is an operator from the          *)
(* database and the request to the response and the database it leaves;    *)
(* the actions apply the views to the current database.                    *)
(*                                                                         *)
(* A post row carries the columns the views read or filter on (author,     *)
(* is_published, category, pub_date); title, text, location and image are  *)
(* free-form columns no view inspects.                                     *)
(*                                                                         *)
(* Spec       - the blog from empty tables: posts and comments are         *)
(*              written, edited, hidden and deleted.                       *)
(* SpecSeeded - editing and deleting on every database of two posts and    *)
(*              two comments.                                              *)
(* SpecList   - the index and the profile listing on databases large       *)
(*              enough for a second page.                                  *)
(***************************************************************************)
EXTENDS Integers, FiniteSets, Sequences, TLC

VARIABLES
    posts,          \* the Post table: id -> row
    comments,       \* the Comment table: id -> row
    categories,     \* the Category table: slug -> row
    now,            \* what datetime.now() returns
    post_seq,       \* the last id the Post table issued
    comment_seq,    \* the last id the Comment table issued
    request,        \* the request being answered
    response        \* the reply to it, until the client has it

vars == <<posts, comments, categories, now, post_seq, comment_seq, request, response>>

\* ------------------------------------------------------------------ bounds
\* Posts and comments written in Spec, the last value of the clock, the posts
\* listed in SpecList and the largest ?page= asked for.
MaxPosts == 1
MaxComments == 1
MaxTime == 1
MaxListPosts == 11
MaxPageParam == 3

\* ------------------------------------------------------------- value sets
Users == {"u1", "u2"}
AnonymousUser == "anonymous"
Viewers == Users \cup {AnonymousUser}
Categories == {"c1"}
Texts == {"a", "b"}
\* The dates a post is given: one already reached, and the last the clock reaches.
PubDates == {0, MaxTime}
Methods == {"GET", "POST"}

\* A submitted PostForm: every column but the author when it validates, and one
\* submission that does not.
PostForm ==
    [valid : {TRUE}, is_published : BOOLEAN, category : Categories, pub_date : PubDates]
        \cup {[valid |-> FALSE, is_published |-> FALSE,
                category |-> CHOOSE c \in Categories : TRUE, pub_date |-> 0]}

\* A submitted CommentForm: the text alone when it validates (an empty text does not).
CommentForm ==
    [valid : {TRUE}, text : Texts] \cup {[valid |-> FALSE, text |-> ""]}

\* ---------------------------------------------------------------- database
DB ==
    [posts |-> posts, comments |-> comments, categories |-> categories,
     now |-> now, post_seq |-> post_seq, comment_seq |-> comment_seq]

\* Deleting the post row alone, as with on_delete=DO_NOTHING.
DeletePostOnly(db, post_id) ==
    [db EXCEPT !.posts = [p \in DOMAIN db.posts \ {post_id} |-> db.posts[p]]]

\* Comment.post is a foreign key with on_delete=CASCADE: deleting a post row
\* deletes the comment rows that point at it.
CascadeDeletePost(db, post_id) ==
    [db EXCEPT
        !.posts = [p \in DOMAIN db.posts \ {post_id} |-> db.posts[p]],
        !.comments = [c \in {x \in DOMAIN db.comments : db.comments[x].post # post_id}
                        |-> db.comments[c]]]

DeleteComment(db, comment_id) ==
    [db EXCEPT
        !.comments = [c \in DOMAIN db.comments \ {comment_id} |-> db.comments[c]]]

CommentsOf(db, post_id) ==
    {c \in DOMAIN db.comments : db.comments[c].post = post_id}

\* --------------------------------------------------------------- responses
NoPosts == <<>>

Reply(status, to, db, page, shown) ==
    [status |-> status, to |-> to, db |-> db, page |-> page, comments |-> shown]

Http404(db) == Reply(404, "", db, NoPosts, {})
Http403(db) == Reply(403, "", db, NoPosts, {})
Http500(db) == Reply(500, "", db, NoPosts, {})
Render(db, page, shown) == Reply(200, "", db, page, shown)
Redirect(db, to) == Reply(302, to, db, NoPosts, {})

\* @login_required and LoginRequiredMixin send an anonymous user to the login page.
RedirectToLogin(db) == Redirect(db, "login")

\* ------------------------------------------------------------------- views
PostDetailView_get_queryset(db, user) ==
    IF user # AnonymousUser
    THEN DOMAIN db.posts
    ELSE {p \in DOMAIN db.posts :
            /\ db.posts[p].is_published
            /\ db.categories[db.posts[p].category].is_published
            /\ db.posts[p].pub_date <= db.now}

PostDetailView(db, user, post_id) ==
    IF post_id \notin PostDetailView_get_queryset(db, user)
    THEN Http404(db)
    ELSE Render(db, <<post_id>>, CommentsOf(db, post_id))

\* order_by('-pub_date'); rows with equal pub_date come out in insertion (id) order.
RECURSIVE order_by_pub_date_desc(_, _)
order_by_pub_date_desc(db, S) ==
    IF S = {}
    THEN <<>>
    ELSE LET first == CHOOSE p \in S : \A q \in S :
                          \/ db.posts[q].pub_date < db.posts[p].pub_date
                          \/ /\ db.posts[q].pub_date = db.posts[p].pub_date
                             /\ q >= p
         IN <<first>> \o order_by_pub_date_desc(db, S \ {first})

\* django.core.paginator.Paginator as the views use it (orphans=0,
\* allow_empty_first_page=True).
num_pages(count, per_page) ==
    IF count = 0 THEN 1 ELSE (count + per_page - 1) \div per_page

page_of(object_list, number, per_page) ==
    LET bottom == (number - 1) * per_page
        top == IF bottom + per_page >= Len(object_list)
               THEN Len(object_list) ELSE bottom + per_page
    IN SubSeq(object_list, bottom + 1, top)

\* The ?page= parameter of a request: absent, an integer, or some other text.
PageParams ==
    {[kind |-> "absent", n |-> 0], [kind |-> "text", n |-> 0]}
        \cup [kind : {"int"}, n : 0..MaxPageParam]

PostListView_paginate_by == 10

\* The index filter without the category check.
PostListView_get_queryset_any_category(db) ==
    {p \in DOMAIN db.posts :
        /\ db.posts[p].is_published
        /\ db.posts[p].pub_date <= db.now}

PostListView_get_queryset(db) ==
    {p \in DOMAIN db.posts :
        /\ db.posts[p].is_published
        /\ db.categories[db.posts[p].category].is_published
        /\ db.posts[p].pub_date <= db.now}

\* MultipleObjectMixin.paginate_queryset: an unparsable or out-of-range page is a 404.
PostListView(db, user, page) ==
    LET object_list == order_by_pub_date_desc(db, PostListView_get_queryset(db))
        number == IF page.kind = "absent" THEN 1 ELSE page.n
        last == num_pages(Len(object_list), PostListView_paginate_by)
    IN IF page.kind = "text" \/ number < 1 \/ number > last
       THEN Http404(db)
       ELSE Render(db, page_of(object_list, number, PostListView_paginate_by), {})

UserProfileView_per_page == 10

\* The profile query with the owner's branch taken by every logged-in viewer.
UserProfileView_posts_any_user(db, user, username) ==
    IF user # AnonymousUser
    THEN {p \in DOMAIN db.posts : db.posts[p].author = username}
    ELSE {p \in DOMAIN db.posts :
            /\ db.posts[p].author = username
            /\ db.posts[p].is_published
            /\ db.categories[db.posts[p].category].is_published
            /\ db.posts[p].pub_date <= db.now}

UserProfileView_posts(db, user, username) ==
    IF user = username
    THEN {p \in DOMAIN db.posts : db.posts[p].author = username}
    ELSE {p \in DOMAIN db.posts :
            /\ db.posts[p].author = username
            /\ db.posts[p].is_published
            /\ db.categories[db.posts[p].category].is_published
            /\ db.posts[p].pub_date <= db.now}

\* Paginator.get_page: an unparsable page is page 1, an out-of-range one the last page.
get_page(object_list, page, per_page) ==
    LET last == num_pages(Len(object_list), per_page)
        number == IF page.kind # "int" THEN 1
                  ELSE IF page.n < 1 \/ page.n > last THEN last
                  ELSE page.n
    IN page_of(object_list, number, per_page)

UserProfileView(db, user, username, page) ==
    IF username \notin Users
    THEN Http404(db)
    ELSE Render(db,
                get_page(order_by_pub_date_desc(db, UserProfileView_posts(db, user, username)),
                         page, UserProfileView_per_page),
                {})

PostCreateView(db, user, method, form) ==
    IF user = AnonymousUser THEN RedirectToLogin(db)
    ELSE IF method = "GET" \/ ~form.valid THEN Render(db, NoPosts, {})
    ELSE LET id == db.post_seq + 1
             row == [author |-> user, is_published |-> form.is_published,
                     category |-> form.category, pub_date |-> form.pub_date]
         IN Redirect([db EXCEPT !.post_seq = id,
                                !.posts = [p \in DOMAIN db.posts \cup {id} |->
                                             IF p = id THEN row ELSE db.posts[p]]],
                     "profile")

\* OnlyAuthorMixin.test_func on the object the view resolved.
test_func(db, user, post_id) == db.posts[post_id].author = user

\* AccessMixin.handle_no_permission: 403 for a logged-in user, the login page otherwise.
handle_no_permission(db, user) ==
    IF user # AnonymousUser THEN Http403(db) ELSE RedirectToLogin(db)

PostUpdateView(db, user, method, post_id, form) ==
    IF post_id \notin DOMAIN db.posts THEN Http404(db)
    ELSE IF ~test_func(db, user, post_id) THEN handle_no_permission(db, user)
    ELSE IF method = "GET" \/ ~form.valid THEN Render(db, <<post_id>>, {})
    ELSE Redirect([db EXCEPT !.posts[post_id] =
                        [author |-> db.posts[post_id].author,
                         is_published |-> form.is_published,
                         category |-> form.category,
                         pub_date |-> form.pub_date]],
                  "post_detail")

PostDeleteView(db, user, method, post_id) ==
    IF post_id \notin DOMAIN db.posts THEN Http404(db)
    ELSE IF ~test_func(db, user, post_id) THEN handle_no_permission(db, user)
    ELSE IF method = "GET" THEN Render(db, <<post_id>>, {})
    ELSE Redirect(CascadeDeletePost(db, post_id), "profile")

\* The lookup add_comment, edit_comment and delete_comment each start with.
get_published_post_or_404(db, post_id) ==
    /\ post_id \in DOMAIN db.posts
    /\ db.posts[post_id].is_published
    /\ db.categories[db.posts[post_id].category].is_published
    /\ db.posts[post_id].pub_date <= db.now

\* add_comment crediting the comment to the post's author.
add_comment_as_post_author(db, user, method, post_id, form) ==
    IF user = AnonymousUser THEN RedirectToLogin(db)
    ELSE IF ~get_published_post_or_404(db, post_id) THEN Http404(db)
    ELSE IF method = "POST" /\ form.valid
    THEN LET id == db.comment_seq + 1
             row == [author |-> db.posts[post_id].author, post |-> post_id,
                     text |-> form.text]
         IN Redirect([db EXCEPT !.comment_seq = id,
                                !.comments = [c \in DOMAIN db.comments \cup {id} |->
                                                IF c = id THEN row ELSE db.comments[c]]],
                     "post_detail")
    ELSE Redirect(db, "post_detail")

\* add_comment resolving the post the way the detail page does for logged-in users.
add_comment_any_post(db, user, method, post_id, form) ==
    IF user = AnonymousUser THEN RedirectToLogin(db)
    ELSE IF post_id \notin DOMAIN db.posts THEN Http404(db)
    ELSE IF method = "POST" /\ form.valid
    THEN LET id == db.comment_seq + 1
             row == [author |-> user, post |-> post_id, text |-> form.text]
         IN Redirect([db EXCEPT !.comment_seq = id,
                                !.comments = [c \in DOMAIN db.comments \cup {id} |->
                                                IF c = id THEN row ELSE db.comments[c]]],
                     "post_detail")
    ELSE Redirect(db, "post_detail")

\* A GET carries no form data, so its CommentForm is invalid like an empty POST.
add_comment(db, user, method, post_id, form) ==
    IF user = AnonymousUser THEN RedirectToLogin(db)
    ELSE IF ~get_published_post_or_404(db, post_id) THEN Http404(db)
    ELSE IF method = "POST" /\ form.valid
    THEN LET id == db.comment_seq + 1
             row == [author |-> user, post |-> post_id, text |-> form.text]
         IN Redirect([db EXCEPT !.comment_seq = id,
                                !.comments = [c \in DOMAIN db.comments \cup {id} |->
                                                IF c = id THEN row ELSE db.comments[c]]],
                     "post_detail")
    ELSE Redirect(db, "post_detail")

\* edit_comment resolving the post without the publication filter.
edit_comment_any_post(db, user, method, post_id, comment_id, form) ==
    IF user = AnonymousUser THEN RedirectToLogin(db)
    ELSE IF post_id \notin DOMAIN db.posts THEN Http404(db)
    ELSE IF comment_id \notin CommentsOf(db, post_id) THEN Http404(db)
    ELSE IF user = db.comments[comment_id].author
    THEN IF method = "POST" /\ form.valid
         THEN Redirect([db EXCEPT !.comments[comment_id].text = form.text],
                       "post_detail")
         ELSE Render(db, <<post_id>>, {comment_id})
    ELSE Http500(db)

\* A reader who is not the comment's author reaches the context dictionary with
\* `form` never assigned: UnboundLocalError, a 500.
edit_comment(db, user, method, post_id, comment_id, form) ==
    IF user = AnonymousUser THEN RedirectToLogin(db)
    ELSE IF ~get_published_post_or_404(db, post_id) THEN Http404(db)
    ELSE IF comment_id \notin CommentsOf(db, post_id) THEN Http404(db)
    ELSE IF user = db.comments[comment_id].author
    THEN IF method = "POST" /\ form.valid
         THEN Redirect([db EXCEPT !.comments[comment_id].text = form.text],
                       "post_detail")
         ELSE Render(db, <<post_id>>, {comment_id})
    ELSE Http500(db)

\* delete_comment without the author check.
delete_comment_by_anyone(db, user, method, post_id, comment_id) ==
    IF user = AnonymousUser THEN RedirectToLogin(db)
    ELSE IF ~get_published_post_or_404(db, post_id) THEN Http404(db)
    ELSE IF comment_id \notin CommentsOf(db, post_id) THEN Http404(db)
    ELSE IF method = "POST"
    THEN Redirect(DeleteComment(db, comment_id), "post_detail")
    ELSE Render(db, NoPosts, {comment_id})

delete_comment(db, user, method, post_id, comment_id) ==
    IF user = AnonymousUser THEN RedirectToLogin(db)
    ELSE IF ~get_published_post_or_404(db, post_id) THEN Http404(db)
    ELSE IF comment_id \notin CommentsOf(db, post_id) THEN Http404(db)
    ELSE IF user = db.comments[comment_id].author
    THEN IF method = "POST"
         THEN Redirect(DeleteComment(db, comment_id), "post_detail")
         ELSE Render(db, NoPosts, {comment_id})
    ELSE Redirect(db, "post_detail")

\* ------------------------------------------------------------ state machine
EmptyTable == [id \in {} |-> id]

\* The ids a request can name: those issued so far (the first one while none is).
PostIds == 1..(IF post_seq = 0 THEN 1 ELSE post_seq)
CommentIds == 1..(IF comment_seq = 0 THEN 1 ELSE comment_seq)
Usernames == Users \cup {"nobody"}

\* What a request submits: a GET carries no form data, a POST carries a form.
NoForm == [valid |-> FALSE]
PostSubmissions ==
    {[method |-> "GET", form |-> NoForm]} \cup [method : {"POST"}, form : PostForm]
CommentSubmissions ==
    {[method |-> "GET", form |-> NoForm]} \cup [method : {"POST"}, form : CommentForm]

NoPage == [kind |-> "absent", n |-> 0]

Request(view, user, method, valid, post_id, comment_id) ==
    [view |-> view, user |-> user, method |-> method, valid |-> valid,
     post_id |-> post_id, comment_id |-> comment_id, username |-> "", page |-> NoPage]

ListRequest(view, user, username, page) ==
    [view |-> view, user |-> user, method |-> "GET", valid |-> FALSE,
     post_id |-> 0, comment_id |-> 0, username |-> username, page |-> page]

NoRequest == Request("", AnonymousUser, "GET", FALSE, 0, 0)
Idle == [status |-> 0, to |-> "", page |-> NoPosts, comments |-> {}]

\* Each request is one short transaction: the view's reply is recorded and the
\* database it leaves is committed.
Handle(req, reply) ==
    /\ posts' = reply.db.posts
    /\ comments' = reply.db.comments
    /\ categories' = reply.db.categories
    /\ now' = reply.db.now
    /\ post_seq' = reply.db.post_seq
    /\ comment_seq' = reply.db.comment_seq
    /\ request' = req
    /\ response' = [status |-> reply.status, to |-> reply.to, page |-> reply.page,
                    comments |-> reply.comments]

Init ==
    /\ posts = EmptyTable
    /\ comments = EmptyTable
    /\ categories \in [Categories -> [is_published : BOOLEAN]]
    /\ now = 0
    /\ post_seq = 0
    /\ comment_seq = 0
    /\ request = NoRequest
    /\ response = Idle

ServePostDetail ==
    /\ response = Idle
    /\ \E user \in Viewers, post_id \in PostIds :
        Handle(Request("post_detail", user, "GET", FALSE, post_id, 0),
               PostDetailView(DB, user, post_id))

ServeCreatePost ==
    /\ response = Idle
    /\ post_seq < MaxPosts
    /\ \E user \in Viewers, sub \in PostSubmissions :
        Handle(Request("create_post", user, sub.method, sub.form.valid, 0, 0),
               PostCreateView(DB, user, sub.method, sub.form))

ServeEditPost ==
    /\ response = Idle
    /\ \E user \in Viewers, post_id \in PostIds, sub \in PostSubmissions :
        Handle(Request("edit_post", user, sub.method, sub.form.valid, post_id, 0),
               PostUpdateView(DB, user, sub.method, post_id, sub.form))

ServeDeletePost ==
    /\ response = Idle
    /\ \E user \in Viewers, method \in Methods, post_id \in PostIds :
        Handle(Request("delete_post", user, method, FALSE, post_id, 0),
               PostDeleteView(DB, user, method, post_id))

ServeAddComment ==
    /\ response = Idle
    /\ comment_seq < MaxComments
    /\ \E user \in Viewers, post_id \in PostIds, sub \in CommentSubmissions :
        Handle(Request("add_comment", user, sub.method, sub.form.valid, post_id, 0),
               add_comment(DB, user, sub.method, post_id, sub.form))

ServeEditComment ==
    /\ response = Idle
    /\ \E user \in Viewers, post_id \in PostIds, comment_id \in CommentIds,
          sub \in CommentSubmissions :
        Handle(Request("edit_comment", user, sub.method, sub.form.valid,
                       post_id, comment_id),
               edit_comment(DB, user, sub.method, post_id, comment_id, sub.form))

ServeDeleteComment ==
    /\ response = Idle
    /\ \E user \in Viewers, method \in Methods, post_id \in PostIds,
          comment_id \in CommentIds :
        Handle(Request("delete_comment", user, method, FALSE, post_id, comment_id),
               delete_comment(DB, user, method, post_id, comment_id))

\* The client has the reply; the next request can be served.
Deliver ==
    /\ response # Idle
    /\ request' = NoRequest
    /\ response' = Idle
    /\ UNCHANGED <<posts, comments, categories, now, post_seq, comment_seq>>

\* The admin site registers Category: staff publish and unpublish categories.
CategoryAdmin ==
    /\ response = Idle
    /\ \E c \in Categories, flag \in BOOLEAN :
        categories' = [categories EXCEPT ![c].is_published = flag]
    /\ UNCHANGED <<posts, comments, now, post_seq, comment_seq, request, response>>

\* datetime.now() advances between requests.
Tick ==
    /\ response = Idle
    /\ now < MaxTime
    /\ now' = now + 1
    /\ UNCHANGED <<posts, comments, categories, post_seq, comment_seq, request, response>>

Next ==
    \/ ServePostDetail
    \/ ServeCreatePost
    \/ ServeEditPost
    \/ ServeDeletePost
    \/ ServeAddComment
    \/ ServeEditComment
    \/ ServeDeleteComment
    \/ Deliver
    \/ CategoryAdmin
    \/ Tick

Spec == Init /\ [][Next]_vars

\* ------------------------------------------------------ a blog with content
\* Editing and deleting, on every database of two posts and two comments.
SeedIds == {1, 2}
PostRows ==
    [author : Users, is_published : BOOLEAN, category : Categories, pub_date : PubDates]
CommentRows == [author : Users, post : SeedIds, text : Texts]

InitSeeded ==
    /\ posts \in [SeedIds -> PostRows]
    /\ comments \in [SeedIds -> CommentRows]
    /\ categories \in [Categories -> [is_published : BOOLEAN]]
    /\ now = 0
    /\ post_seq = Cardinality(SeedIds)
    /\ comment_seq = Cardinality(SeedIds)
    /\ request = NoRequest
    /\ response = Idle

NextSeeded ==
    \/ ServePostDetail
    \/ ServeEditPost
    \/ ServeDeletePost
    \/ ServeEditComment
    \/ ServeDeleteComment
    \/ Deliver
    \/ CategoryAdmin
    \/ Tick

SpecSeeded == InitSeeded /\ [][NextSeeded]_vars

\* ---------------------------------------------------------------- listings
\* The listings are functions of the database and the request alone.  They are
\* run against databases of up to MaxListPosts posts, enough for a second page:
\* every stride-th post is by the second author, every hide-th is unpublished,
\* and the publication dates cycle through 0..MaxTime in runs of `run` posts.
Strides == 1..3
ListSizes == {0, 1, MaxListPosts - 1, MaxListPosts}

ListedPosts(n, stride, hide, run) ==
    [id \in 1..n |->
        [author |-> IF id % stride = 0 THEN "u2" ELSE "u1",
         is_published |-> id % hide # 0,
         category |-> CHOOSE c \in Categories : TRUE,
         pub_date |-> (id \div run) % (MaxTime + 1)]]

InitList ==
    /\ \E n \in ListSizes, stride \in Strides, hide \in Strides, run \in 1..2 :
        /\ posts = ListedPosts(n, stride, hide, run)
        /\ post_seq = n
    /\ comments = EmptyTable
    /\ comment_seq = 0
    /\ categories \in [Categories -> [is_published : BOOLEAN]]
    /\ now = 0
    /\ request = NoRequest
    /\ response = Idle

ServeIndex ==
    /\ response = Idle
    /\ \E user \in Viewers, page \in PageParams :
        Handle(ListRequest("index", user, "", page), PostListView(DB, user, page))

ServeProfile ==
    /\ response = Idle
    /\ \E user \in Viewers, username \in Usernames, page \in PageParams :
        Handle(ListRequest("profile", user, username, page),
               UserProfileView(DB, user, username, page))

NextList ==
    \/ ServeIndex
    \/ ServeProfile
    \/ Deliver
    \/ CategoryAdmin
    \/ Tick

SpecList == InitList /\ [][NextList]_vars

\* ------------------------------------------------------------------ claims
\* The public-visibility invariant of the data model: published, in a published
\* category, and not dated in the future.
PubliclyVisible(post_id) ==
    /\ posts[post_id].is_published
    /\ categories[posts[post_id].category].is_published
    /\ posts[post_id].pub_date <= now

Range(seq) == {seq[i] : i \in DOMAIN seq}

Answered == response # Idle

\* C1: a post that is not publicly visible is NotFound on the detail page for
\* every viewer other than its author, anonymous or logged in.
C1_HiddenPostNotFoundForNonAuthor ==
    (/\ Answered
     /\ request.view = "post_detail"
     /\ request.post_id \in DOMAIN posts
     /\ ~PubliclyVisible(request.post_id)
     /\ request.user # posts[request.post_id].author)
        => response.status = 404

\* C2: an edit or delete request for a post or comment made by anyone but its
\* author (another user or an anonymous visitor) leaves every table as it was.
C2_NonAuthorMutationChangesNothing ==
    [][LET r == request'
       IN (\/ /\ r.view \in {"edit_post", "delete_post"}
              /\ r.post_id \in DOMAIN posts
              /\ posts[r.post_id].author # r.user
           \/ /\ r.view \in {"edit_comment", "delete_comment"}
              /\ r.comment_id \in DOMAIN comments
              /\ comments[r.comment_id].author # r.user)
          => UNCHANGED <<posts, comments, categories, post_seq, comment_seq>>]_vars

\* A logged-in user other than the author has just POSTed a delete for a comment
\* on a visible post, and the comment is still there.
C2_Witness ==
    /\ Answered
    /\ request.view = "delete_comment"
    /\ request.method = "POST"
    /\ request.user \in Users
    /\ request.comment_id \in DOMAIN comments
    /\ comments[request.comment_id].author # request.user
    /\ comments[request.comment_id].post = request.post_id
    /\ PubliclyVisible(request.post_id)

\* C3: add_comment on an existing post that is not publicly visible is NotFound
\* and saves no comment, for every logged-in user, the post's author included.
C3_CommentOnHiddenPostNotFound ==
    [][LET r == request'
       IN (/\ r.view = "add_comment"
           /\ r.user \in Users
           /\ r.post_id \in DOMAIN posts
           /\ ~PubliclyVisible(r.post_id))
          => /\ response'.status = 404
             /\ UNCHANGED <<posts, comments, comment_seq>>]_vars

\* The author of a hidden post has just POSTed a valid comment on it and got
\* NotFound, while the detail page of that post still opens for them.
C3_Witness ==
    /\ Answered
    /\ request.view = "add_comment"
    /\ request.method = "POST"
    /\ request.valid
    /\ request.post_id \in DOMAIN posts
    /\ request.user = posts[request.post_id].author
    /\ ~PubliclyVisible(request.post_id)
    /\ response.status = 404
    /\ PostDetailView(DB, request.user, request.post_id).status = 200

\* The posts a profile listing shows over all its pages, whatever page is asked for.
ProfilePosts(user, username) ==
    UNION {Range(UserProfileView(DB, user, username, page).page) : page \in PageParams}

PostsBy(username) == {p \in DOMAIN posts : posts[p].author = username}

\* C4: over all its pages the profile of U lists exactly U's posts, hidden ones
\* included, when U is the viewer, and exactly U's publicly visible posts when the
\* viewer is anyone else or anonymous.
C4_ProfileListsOwnAllElseVisible ==
    (/\ Answered
     /\ request.view = "profile"
     /\ request.username \in Users)
        => LET shown == ProfilePosts(request.user, request.username)
               expected == IF request.user = request.username
                           THEN PostsBy(request.username)
                           ELSE {p \in PostsBy(request.username) : PubliclyVisible(p)}
           IN /\ shown = expected
              /\ Range(response.page) \subseteq expected

\* A user has just opened the second page of their own profile, and it shows a
\* post of theirs that is not publicly visible.
C4_Witness ==
    /\ Answered
    /\ request.view = "profile"
    /\ request.user = request.username
    /\ request.page = [kind |-> "int", n |-> 2]
    /\ Cardinality(PostsBy(request.username)) > UserProfileView_per_page
    /\ \E p \in Range(response.page) : ~PubliclyVisible(p)
    /\ \E p \in PostsBy(request.username) : p \notin Range(response.page)

\* C5: every post on any page of the index is publicly visible at the time of
\* the query, whoever asks.
C5_IndexShowsOnlyVisible ==
    (Answered /\ request.view = "index")
        => \A p \in Range(response.page) : p \in DOMAIN posts /\ PubliclyVisible(p)

\* A user with a hidden post of their own has just opened a page of the index
\* that shows posts, and their hidden post is not among them.
C5_Witness ==
    /\ Answered
    /\ request.view = "index"
    /\ response.page # NoPosts
    /\ \E p \in PostsBy(request.user) : ~PubliclyVisible(p)
    /\ \E p \in DOMAIN posts : PubliclyVisible(p) /\ posts[p].author # request.user

\* C6: a post deleted by its author takes exactly its own comments with it; a
\* comment deleted by its author goes alone, its post and every other comment
\* staying as they were.
C6_DeleteCascadesOnlyOwnComments ==
    [][LET r == request'
       IN /\ (/\ r.view = "delete_post"
              /\ r.method = "POST"
              /\ r.post_id \in DOMAIN posts
              /\ posts[r.post_id].author = r.user)
                => /\ posts' = [p \in DOMAIN posts \ {r.post_id} |-> posts[p]]
                   /\ comments' = [c \in {x \in DOMAIN comments :
                                            comments[x].post # r.post_id}
                                     |-> comments[c]]
          /\ (/\ r.view = "delete_comment"
              /\ r.method = "POST"
              /\ r.comment_id \in DOMAIN comments
              /\ comments[r.comment_id].author = r.user
              /\ comments[r.comment_id].post = r.post_id
              /\ PubliclyVisible(r.post_id))
                => /\ comments' = [c \in DOMAIN comments \ {r.comment_id} |-> comments[c]]
                   /\ posts' = posts
          /\ (r.view = "delete_comment" /\ comments' # comments)
                => /\ r.comment_id \in DOMAIN comments
                   /\ comments[r.comment_id].author = r.user
                   /\ comments' = [c \in DOMAIN comments \ {r.comment_id} |-> comments[c]]
                   /\ posts' = posts]_vars

\* An author has just deleted a post; of the two comments one is gone and the
\* one on the other post is still there.
C6_Witness ==
    /\ Answered
    /\ request.view = "delete_post"
    /\ request.method = "POST"
    /\ response.status = 302
    /\ response.to = "profile"
    /\ request.post_id \notin DOMAIN posts
    /\ DOMAIN comments # {}
    /\ DOMAIN comments # SeedIds
    /\ \A c \in DOMAIN comments : comments[c].post \in DOMAIN posts

\* C7: a logged-in user who is not the owner and tries to edit or delete an
\* existing post or comment, by GET or by POST, is silently redirected: no 403,
\* no unhandled error.
C7_NonOwnerIsRedirected ==
    (/\ Answered
     /\ request.user \in Users
     /\ \/ /\ request.view \in {"edit_post", "delete_post"}
           /\ request.post_id \in DOMAIN posts
           /\ posts[request.post_id].author # request.user
        \/ /\ request.view \in {"edit_comment", "delete_comment"}
           /\ request.comment_id \in DOMAIN comments
           /\ comments[request.comment_id].author # request.user
           /\ comments[request.comment_id].post = request.post_id
           /\ PubliclyVisible(request.post_id))
        => /\ response.status = 302
           /\ response.to # "login"

\* What the caller can tell two replies apart by.
Outcome(reply) == [status |-> reply.status, to |-> reply.to]

\* Every request a viewer can address at post X.
OutcomesAt(db, user, X) ==
    [detail |-> Outcome(PostDetailView(db, user, X)),
     edit |-> [sub \in PostSubmissions |->
                 Outcome(PostUpdateView(db, user, sub.method, X, sub.form))],
     delete |-> [method \in Methods |-> Outcome(PostDeleteView(db, user, method, X))],
     comment |-> [sub \in CommentSubmissions |->
                    Outcome(add_comment(db, user, sub.method, X, sub.form))],
     edit_comment |-> [c \in CommentIds |-> [sub \in CommentSubmissions |->
                    Outcome(edit_comment(db, user, sub.method, X, c, sub.form))]],
     delete_comment |-> [c \in CommentIds |-> [method \in Methods |->
                    Outcome(delete_comment(db, user, method, X, c))]]]

NotFoundAt ==
    [detail |-> [status |-> 404, to |-> ""],
     edit |-> [sub \in PostSubmissions |-> [status |-> 404, to |-> ""]],
     delete |-> [method \in Methods |-> [status |-> 404, to |-> ""]],
     comment |-> [sub \in CommentSubmissions |-> [status |-> 404, to |-> ""]],
     edit_comment |-> [c \in CommentIds |-> [sub \in CommentSubmissions |->
                         [status |-> 404, to |-> ""]]],
     delete_comment |-> [c \in CommentIds |-> [method \in Methods |->
                         [status |-> 404, to |-> ""]]]]

\* C8: to a viewer who is not its author, a hidden post X looks exactly like no
\* post X at all: every request addressed at X is answered NotFound in the
\* database that holds X as in the one that does not.
C8_HiddenLooksLikeMissing ==
    \A X \in DOMAIN posts : \A user \in Viewers :
        (~PubliclyVisible(X) /\ user # posts[X].author)
            => /\ OutcomesAt(DB, user, X) = OutcomesAt(CascadeDeletePost(DB, X), user, X)
               /\ OutcomesAt(DB, user, X) = NotFoundAt

\* C9: while a comment's post is not publicly visible, an edit or delete of the
\* comment by any logged-in user, its author included, is NotFound and changes
\* nothing; such a comment goes only when its post is deleted.
C9_CommentOnHiddenPostIsFrozen ==
    [][LET r == request'
       IN /\ (/\ r.view \in {"edit_comment", "delete_comment"}
              /\ r.user \in Users
              /\ r.comment_id \in DOMAIN comments
              /\ ~PubliclyVisible(comments[r.comment_id].post))
                => /\ response'.status = 404
                   /\ UNCHANGED <<posts, comments, categories, post_seq, comment_seq>>
          /\ \A c \in DOMAIN comments :
                (~PubliclyVisible(comments[c].post) /\ c \in DOMAIN comments')
                    => comments'[c] = comments[c]
          /\ \A c \in DOMAIN comments \ DOMAIN comments' :
                ~PubliclyVisible(comments[c].post)
                    => /\ r.view = "delete_post"
                       /\ r.post_id = comments[c].post
                       /\ comments[c].post \notin DOMAIN posts']_vars

\* The author of a comment has just POSTed a valid edit of it, after its post
\* stopped being publicly visible, and got NotFound.
C9_Witness ==
    /\ Answered
    /\ request.view = "edit_comment"
    /\ request.method = "POST"
    /\ request.valid
    /\ request.comment_id \in DOMAIN comments
    /\ comments[request.comment_id].author = request.user
    /\ comments[request.comment_id].post = request.post_id
    /\ ~PubliclyVisible(request.post_id)
    /\ response.status = 404

====
